---- MODULE Spec2Model ----
(***************************************************************************)
(* http_proxy_wrapper/main.py: a command is run repeatedly, each attempt   *)
(* through a proxy drawn from a scraped listing (class Proxy, class        *)
(* SSLProxyManager, function main).                                        *)
(*                                                                         *)
(* Two specifications share the definitions of the methods:                *)
(*   Spec     the script: main() on a freshly constructed SSLProxyManager  *)
(*   SpecAPI  the classes used as a library: a client calls verify, run,   *)
(*            refresh, random, unused and valid on one manager in any order *)
(***************************************************************************)
EXTENDS Integers, Sequences, FiniteSets, TLC

\* ------------------------------------------------------------------ bounds
\* longest listing the page returns
MaxRows == 2
\* largest REFRESH_TRIES, COMMAND_MAX_TRIES and PROXY_RANDOM_MAX_TRIES tried
MaxRefreshTries == 2
MaxCommandTries == 4
MaxRandomTries == 2
\* most method calls the client of the library makes
MaxCalls == 3

\* ------------------------------------------------------------ input values
\* The table rows the listing page can show (td texts of one tr; the columns
\* that no branch of the program reads are left out).
Rows ==
    << [host |-> "10.0.0.1", port |-> "8080", anonymity |-> "anonymous",   https |-> "yes"],
       [host |-> "10.0.0.2", port |-> "8080", anonymity |-> "elite proxy", https |-> "no"],
       [host |-> "10.0.0.3", port |-> "8080", anonymity |-> "elite proxy", https |-> "yes"],
       [host |-> "10.0.0.3", port |-> "8080", anonymity |-> "transparent", https |-> "no"] >>

RECURSIVE SeqsUpTo(_, _)
SeqsUpTo(S, n) ==
    IF n = 0 THEN {<<>>}
    ELSE LET shorter == SeqsUpTo(S, n - 1)
         IN  shorter \cup {Append(s, x) : s \in {t \in shorter : Len(t) = n - 1}, x \in S}

\* The pages: up to MaxRows rows, the same row possibly more than once.  The
\* program reads a record's position only through random.choice, so of the
\* pages that differ in the order of their rows one is taken.
Listings ==
    { [i \in 1..Len(l) |-> Rows[l[i]]] :
        l \in {m \in SeqsUpTo(1..Len(Rows), MaxRows) :
                 \A a \in 1..(Len(m) - 1) : m[a] <= m[a + 1]} }

\* The page of an error status holds at most one row here.
ErrorPages == {l \in Listings : Len(l) <= 1}

FetchResponses ==
    {[exc |-> TRUE, ok |-> FALSE, rows |-> <<>>]}
      \cup {[exc |-> FALSE, ok |-> TRUE, rows |-> l] : l \in Listings}
      \cup {[exc |-> FALSE, ok |-> FALSE, rows |-> l] : l \in ErrorPages}

\* What requests.get(verify_url, ...) can do: raise Timeout, raise another
\* RequestException, or return a response with a status and a body.  A body is
\* a sequence of tokens: an IP, possibly followed by a newline.
\* How a probe through each of the proxies fails, when it fails: one way per
\* proxy, the four failures verify() tells apart among them (the two
\* exceptions, an error status, a page showing another machine's address).
FailingResponse(p) ==
    IF p.host = "10.0.0.1" THEN [exc |-> "Timeout", ok |-> FALSE, text |-> <<>>]
    ELSE IF p.host = "10.0.0.2" THEN [exc |-> "RequestException", ok |-> FALSE, text |-> <<>>]
    ELSE IF p.https = "yes" THEN [exc |-> "none", ok |-> FALSE, text |-> <<>>]
    ELSE [exc |-> "none", ok |-> TRUE, text |-> <<"203.0.113.7", "\n">>]

\* The answer through a proxy that forwards: its own host, one line.
WorkingResponse(p) == [exc |-> "none", ok |-> TRUE, text |-> <<p.host, "\n">>]

\* The answers a probe through p can get.
VerifyResponses(p) == {FailingResponse(p), WorkingResponse(p)}

\* exit statuses of the child process
ExitCodes == {0, 1}

\* ------------------------------------------------------------ class Proxy
\* Proxy.__init__: used = False, _valid = (None, '').  probes counts the
\* requests verify() has issued for this object.
NoValid == [known |-> FALSE, ok |-> FALSE, reason |-> <<>>]

Proxy(row) ==
    [host |-> row.host, port |-> row.port, anonymity |-> row.anonymity,
     https |-> row.https, used |-> FALSE, valid |-> NoValid, probes |-> 0]

\* Proxy.use_https
use_https(p, env_use_https) == p.https = "yes" /\ env_use_https

\* Proxy.address
address(p, env_use_https) ==
    <<IF use_https(p, env_use_https) THEN "https" ELSE "http", "://", p.host, ":", p.port>>

\* the look-up written with dict.get and a default
anonymity_with_default(p) ==
    IF p.anonymity = "anonymous" THEN "low"
    ELSE IF p.anonymity = "elite proxy" THEN "high" ELSE "unknown"

\* Proxy.anonymity: the dict lookup; "KeyError" stands for the raised exception
AnonymityMap == [l \in {"anonymous", "elite proxy"} |->
                    IF l = "anonymous" THEN "low" ELSE "high"]

anonymity(p) ==
    IF p.anonymity \in DOMAIN AnonymityMap THEN AnonymityMap[p.anonymity] ELSE "KeyError"

\* resp.text.replace('\n', '')
StripNewlines(text) == SelectSeq(text, LAMBDA c : c # "\n")

\* the body compared as received, line end included
ProbeResult_raw_body(p, resp) ==
    IF resp.exc = "Timeout" THEN [known |-> TRUE, ok |-> FALSE, reason |-> <<"Timeout after">>]
    ELSE IF resp.exc = "RequestException"
      THEN [known |-> TRUE, ok |-> FALSE, reason |-> <<"An error occured">>]
    ELSE IF ~resp.ok THEN [known |-> TRUE, ok |-> FALSE, reason |-> <<"Bad status code">>]
    ELSE IF resp.text # <<p.host>>
      THEN [known |-> TRUE, ok |-> FALSE, reason |-> <<"IPs don't match", p.host>> \o resp.text]
    ELSE [known |-> TRUE, ok |-> TRUE, reason |-> <<>>]

\* The body of Proxy.verify() after the cache test: the pair the probe's
\* answer is turned into.
ProbeResult(p, resp) ==
    IF resp.exc = "Timeout" THEN [known |-> TRUE, ok |-> FALSE, reason |-> <<"Timeout after">>]
    ELSE IF resp.exc = "RequestException"
      THEN [known |-> TRUE, ok |-> FALSE, reason |-> <<"An error occured">>]
    ELSE IF ~resp.ok THEN [known |-> TRUE, ok |-> FALSE, reason |-> <<"Bad status code">>]
    ELSE IF StripNewlines(resp.text) # <<p.host>>
      THEN [known |-> TRUE, ok |-> FALSE,
            reason |-> <<"IPs don't match", p.host>> \o StripNewlines(resp.text)]
    ELSE [known |-> TRUE, ok |-> TRUE, reason |-> <<>>]

\* verify() without the cache test
verify_no_cache(p, resp) == [p EXCEPT !.valid = ProbeResult(p, resp), !.probes = @ + 1]

\* Proxy.verify(): the object after the call.  A cached result is returned
\* without a request; otherwise one request is made and its verdict cached.
verify(p, resp) ==
    IF p.valid.known THEN p
    ELSE [p EXCEPT !.valid = ProbeResult(p, resp), !.probes = @ + 1]

\* The pair verify() returns is the cache after the call.
verify_result(p, resp) == verify(p, resp).valid

\* run() without `self.used = True`
run_forgets_used(p) == p

\* run() with `self.used = not self.used`
run_toggles_used(p) == [p EXCEPT !.used = ~@]

\* Proxy.run(): the command is executed, then used = True
run(p) == [p EXCEPT !.used = TRUE]

\* ---------------------------------------------------- class SSLProxyManager
\* [p.address for p in self._proxies if p.used]
UsedAddresses(ps, env_use_https) ==
    {address(ps[j], env_use_https) : j \in {k \in 1..Len(ps) : ps[k].used}}

\* the listing parsed without the look-up of used addresses
get_proxy_list_forgets_used(resp, old, env_use_https) ==
    [i \in 1..Len(resp.rows) |-> Proxy(resp.rows[i])]

\* SSLProxyManager._get_proxy_list() for a response that was returned: a
\* status that is not ok is logged and `resp.raise_for_status` (an attribute
\* access, not a call) raises nothing, so the rows of whatever page came back
\* are parsed either way.
get_proxy_list(resp, old, env_use_https) ==
    [i \in 1..Len(resp.rows) |->
        LET proxy == Proxy(resp.rows[i])
        IN  IF address(proxy, env_use_https) \in UsedAddresses(old, env_use_https)
            THEN [proxy EXCEPT !.used = TRUE]
            ELSE proxy]

\* any() for all()
AllUsed_any(ps) == \E i \in 1..Len(ps) : ps[i].used

\* all(proxy.used for proxy in self._proxies)
AllUsed(ps) == \A i \in 1..Len(ps) : ps[i].used

\* Python values held by is_valid in random(): the bool False it starts with,
\* or the tuple verify() returns.
PyFalse == [kind |-> "bool", ok |-> FALSE, reason |-> <<>>]

PyTuple(v) == [kind |-> "tuple", ok |-> v.ok, reason |-> v.reason]

\* truth value of a Python object: a bool is itself, a 2-tuple is non-empty
Truthy(v) == IF v.kind = "bool" THEN v.ok ELSE TRUE

\* the draw test without `not proxy.used`
DrawIsChecked_ignores_used(unused_only, p) == unused_only

\* `if unused_only and not proxy.used:` in random()
DrawIsChecked(unused_only, p) == unused_only /\ ~p.used

\* The locals of one call of random(); proxy is an index into _proxies, 0 for
\* None.  probes counts the requests issued during the call.
NoCall ==
    [active |-> FALSE, unused_only |-> FALSE, tries |-> 0, is_valid |-> PyFalse,
     proxy |-> 0, probes |-> 0]

\* What the last completed method call gave back.
\*   kind: "return" or "raise"; err: the exception; idx: the record concerned;
\*   draws, probes: random.choice calls and requests made during the call;
\*   value: the pair verify() returned (in random(): the last value of is_valid);
\*   resp: the answer to the request verify() made, if it made one;
\*   members, fetched, size: the manager unused() or valid() returned: the
\*   records of this pool it holds (indices), or, if its constructor fetched
\*   the listing, the number of records it built from the page.
NoRet ==
    [op |-> "none", kind |-> "none", err |-> "none", idx |-> 0, unused_only |-> FALSE,
     draws |-> 0, probes |-> 0, value |-> NoValid,
     resp |-> [exc |-> "none", ok |-> FALSE, text |-> <<>>],
     members |-> <<>>, fetched |-> FALSE, size |-> 0]

VARIABLES
    proxies,          \* SSLProxyManager._proxies
    env,              \* os.environ: use_https, refresh_tries, max_total_tries, max_tries
    pc,               \* where main() is: loop, check, random, run, done, error; api outside main
    tries,            \* main: tries
    total_tries,      \* main: total_tries
    exit_code,        \* main: exit_code
    cur,              \* main: proxy (index into proxies, 0 before the first draw)
    rnd,              \* the running call of random()
    ret,              \* result of the last completed call
    invocations,      \* number of execute() calls main() has made
    refreshes,        \* number of refresh() calls main() has made
    ran,              \* records (indices) handed to the command since the pool was last replaced
    calls,            \* method calls the client of the library has made
    hist              \* so far every fetch returned a 200 page of two unused records with
                      \* recognised labels and every record random() returned was valid

vars == <<proxies, env, pc, tries, total_tries, exit_code, cur, rnd, ret,
          invocations, refreshes, ran, calls, hist>>

mainVars == <<pc, tries, total_tries, exit_code, cur, invocations, hist>>

Indices == 1..Len(proxies)

RecognisedLabels(ps) == \A i \in 1..Len(ps) : ps[i].anonymity \in DOMAIN AnonymityMap

\* a pool of two records, none used, with labels __str__ can format
FreshPair(ps) == Len(ps) = 2 /\ ~(\E i \in 1..Len(ps) : ps[i].used) /\ RecognisedLabels(ps)

Envs ==
    [use_https : BOOLEAN, refresh_tries : 1..MaxRefreshTries,
     max_total_tries : 1..MaxCommandTries, max_tries : 1..MaxRandomTries]

\* ------------------------------------------------ SSLProxyManager.random()
\* Entry of random(): the all-used test, before the loop.
RandomEnter(unused_only) ==
    IF unused_only /\ AllUsed(proxies)
    THEN /\ rnd' = NoCall
         /\ ret' = [NoRet EXCEPT !.op = "random", !.kind = "raise", !.err = "all_used",
                                 !.unused_only = unused_only]
    ELSE /\ rnd' = [NoCall EXCEPT !.active = TRUE, !.unused_only = unused_only]
         /\ ret' = NoRet

\* One pass of `while not is_valid`: the max-tries test, one random.choice,
\* the verification of an unused draw, tries += 1, and the loop test that
\* follows.
RandomIter ==
    /\ rnd.active
    /\ IF rnd.tries >= env.max_tries
       THEN /\ rnd' = NoCall
            /\ ret' = [NoRet EXCEPT !.op = "random", !.kind = "raise",
                                    !.err = "random_max_tries",
                                    !.unused_only = rnd.unused_only,
                                    !.draws = rnd.tries, !.probes = rnd.probes]
            /\ UNCHANGED proxies
       ELSE IF Len(proxies) = 0
       THEN \* random.choice([]) raises IndexError
            /\ rnd' = NoCall
            /\ ret' = [NoRet EXCEPT !.op = "random", !.kind = "raise", !.err = "IndexError",
                                    !.unused_only = rnd.unused_only,
                                    !.draws = rnd.tries, !.probes = rnd.probes]
            /\ UNCHANGED proxies
       ELSE \E i \in Indices : \E resp \in VerifyResponses(proxies[i]) :
            LET checked == DrawIsChecked(rnd.unused_only, proxies[i])
                after   == IF checked THEN verify(proxies[i], resp) ELSE proxies[i]
                isv     == IF checked THEN PyTuple(verify_result(proxies[i], resp))
                           ELSE rnd.is_valid
                issued  == rnd.probes + (after.probes - proxies[i].probes)
            IN  /\ proxies' = [proxies EXCEPT ![i] = after]
                /\ IF Truthy(isv)
                   THEN /\ rnd' = NoCall
                        /\ ret' = [NoRet EXCEPT !.op = "random", !.kind = "return", !.idx = i,
                                                !.unused_only = rnd.unused_only,
                                                !.draws = rnd.tries + 1, !.probes = issued,
                                                !.value = [known |-> TRUE, ok |-> isv.ok,
                                                           reason |-> isv.reason]]
                   ELSE /\ rnd' = [rnd EXCEPT !.tries = @ + 1, !.is_valid = isv, !.proxy = i,
                                              !.probes = issued]
                        /\ ret' = NoRet

\* ------------------------------------------------------------------ main()
\* the refresh test one attempt early
RefreshDue_early(t, refresh_tries) == t + 1 >= refresh_tries

\* the refresh test written with > for >=
RefreshDue_late(t, refresh_tries) == t > refresh_tries

\* `if tries >= refresh_tries:`
RefreshDue(t, refresh_tries) == t >= refresh_tries

\* the budget test written with > for >=
BudgetSpent_off_by_one(total, max_total_tries) == total > max_total_tries

\* `if total_tries >= max_total_tries:`
BudgetSpent(total, max_total_tries) == total >= max_total_tries

\* the refresh step resetting both counters
MainRefresh_resets_total ==
    /\ UNCHANGED calls
    /\ pc = "loop" /\ exit_code # 0 /\ RefreshDue(tries, env.refresh_tries)
    /\ \E resp \in FetchResponses :
         IF resp.exc
         THEN /\ pc' = "error"
              /\ ret' = [NoRet EXCEPT !.op = "refresh", !.kind = "raise", !.err = "fetch_exception"]
              /\ hist' = FALSE
              /\ UNCHANGED <<proxies, tries, total_tries, ran>>
         ELSE /\ proxies' = get_proxy_list(resp, proxies, env.use_https)
              /\ tries' = 0
              /\ total_tries' = 0
              /\ pc' = "check"
              /\ ran' = <<>>
              /\ ret' = [NoRet EXCEPT !.op = "refresh", !.kind = "return",
                                      !.err = IF resp.ok THEN "none" ELSE "bad_status"]
              /\ hist' = (hist /\ resp.ok /\ FreshPair(proxies'))
    /\ refreshes' = refreshes + 1
    /\ UNCHANGED <<env, exit_code, cur, rnd, invocations>>

\* Top of `while exit_code != 0` with tries >= refresh_tries: p_manager.refresh()
\* and tries = 0.  A transport error of the fetch leaves main() by exception.
MainRefresh ==
    /\ UNCHANGED calls
    /\ pc = "loop" /\ exit_code # 0 /\ RefreshDue(tries, env.refresh_tries)
    /\ \E resp \in FetchResponses :
         IF resp.exc
         THEN /\ pc' = "error"
              /\ ret' = [NoRet EXCEPT !.op = "refresh", !.kind = "raise", !.err = "fetch_exception"]
              /\ hist' = FALSE
              /\ UNCHANGED <<proxies, tries, ran>>
         ELSE /\ proxies' = get_proxy_list(resp, proxies, env.use_https)
              /\ tries' = 0
              /\ pc' = "check"
              /\ ran' = <<>>
              /\ ret' = [NoRet EXCEPT !.op = "refresh", !.kind = "return",
                                      !.err = IF resp.ok THEN "none" ELSE "bad_status"]
              /\ hist' = (hist /\ resp.ok /\ FreshPair(proxies'))
    /\ refreshes' = refreshes + 1
    /\ UNCHANGED <<env, total_tries, exit_code, cur, rnd, invocations>>

\* Top of the loop with tries < refresh_tries: nothing to refresh.
MainNoRefresh ==
    /\ UNCHANGED calls
    /\ pc = "loop" /\ exit_code # 0 /\ ~RefreshDue(tries, env.refresh_tries)
    /\ pc' = "check"
    /\ UNCHANGED <<proxies, env, tries, total_tries, exit_code, cur, rnd, ret,
                   invocations, refreshes, ran, hist>>

\* The total-tries test, then the call p_manager.random() up to its loop.
MainCheck ==
    /\ UNCHANGED calls
    /\ pc = "check"
    /\ IF BudgetSpent(total_tries, env.max_total_tries)
       THEN /\ pc' = "error"
            /\ ret' = [NoRet EXCEPT !.op = "main", !.kind = "raise", !.err = "max_tries"]
            /\ UNCHANGED rnd
       ELSE /\ RandomEnter(TRUE)
            /\ pc' = IF ret'.kind = "raise" THEN "error" ELSE "random"
    /\ UNCHANGED <<proxies, env, tries, total_tries, exit_code, cur,
                   invocations, refreshes, ran, hist>>

\* One pass of random()'s loop on behalf of main().
MainRandom ==
    /\ UNCHANGED calls
    /\ pc = "random"
    /\ RandomIter
    /\ pc' = IF ret'.kind = "raise" THEN "error"
             ELSE IF ret'.kind = "return" THEN "run" ELSE "random"
    /\ cur' = IF ret'.kind = "return" THEN ret'.idx ELSE cur
    /\ hist' = IF ret'.kind = "return" THEN hist /\ ret'.value.ok ELSE hist
    /\ UNCHANGED <<env, tries, total_tries, exit_code, invocations, refreshes, ran>>

\* logger.info(f'... {proxy}') formats the record (Proxy.__str__ reads
\* anonymity), then proxy.run(command), tries += 1, total_tries += 1.
MainRun ==
    /\ UNCHANGED calls
    /\ pc = "run"
    /\ IF anonymity(proxies[cur]) = "KeyError"
       THEN /\ pc' = "error"
            /\ ret' = [NoRet EXCEPT !.op = "str", !.kind = "raise", !.err = "KeyError",
                                    !.idx = cur]
            /\ UNCHANGED <<proxies, tries, total_tries, exit_code, invocations, ran>>
       ELSE \E code \in ExitCodes :
            /\ exit_code' = code
            /\ proxies' = [proxies EXCEPT ![cur] = run(@)]
            /\ invocations' = invocations + 1
            /\ ran' = Append(ran, cur)
            /\ tries' = tries + 1
            /\ total_tries' = total_tries + 1
            /\ pc' = "loop"
            /\ ret' = [NoRet EXCEPT !.op = "run", !.kind = "return", !.idx = cur]
    /\ UNCHANGED <<env, cur, rnd, refreshes, hist>>

\* `while exit_code != 0` is left: logger.info('Done!')
MainDone ==
    /\ UNCHANGED calls
    /\ pc = "loop" /\ exit_code = 0
    /\ pc' = "done"
    /\ UNCHANGED <<proxies, env, tries, total_tries, exit_code, cur, rnd, ret,
                   invocations, refreshes, ran, hist>>

\* main() up to the loop: SSLProxyManager() fetched the listing into an empty
\* manager (no record is used), exit_code = 1, total_tries = 0, tries = 0.
Init ==
    /\ env \in Envs
    /\ \E resp \in {r \in FetchResponses : ~r.exc} :
          proxies = get_proxy_list(resp, <<>>, env.use_https)
    /\ pc = "loop"
    /\ tries = 0
    /\ total_tries = 0
    /\ exit_code = 1
    /\ cur = 0
    /\ rnd = NoCall
    /\ ret = NoRet
    /\ invocations = 0
    /\ refreshes = 0
    /\ ran = <<>>
    /\ calls = 0
    /\ hist = FreshPair(proxies)

Next == MainRefresh \/ MainNoRefresh \/ MainCheck \/ MainRandom \/ MainRun \/ MainDone

Spec == Init /\ [][Next]_vars

\* main() is one thread that is always scheduled: a step that is possible is
\* taken (every external call returns or raises).
FairSpec == Spec /\ WF_vars(Next)

\* ------------------------------------------- the classes used as a library
\* A client holding one SSLProxyManager calls its methods, and those of the
\* records in it, in any order, up to MaxCalls calls; a call of random() runs
\* to its end before the next call (one thread).

\* proxy.verify() on a record of the pool
ApiVerify ==
    /\ pc = "api" /\ ~rnd.active /\ calls < MaxCalls
    /\ calls' = calls + 1
    /\ \E i \in Indices : \E resp \in VerifyResponses(proxies[i]) :
         /\ proxies' = [proxies EXCEPT ![i] = verify(@, resp)]
         /\ ret' = [NoRet EXCEPT !.op = "verify", !.kind = "return", !.idx = i,
                                 !.value = verify_result(proxies[i], resp),
                                 !.resp = IF proxies[i].valid.known THEN NoRet.resp ELSE resp,
                                 !.probes = proxies'[i].probes - proxies[i].probes]
    /\ UNCHANGED <<env, mainVars, rnd, refreshes, ran>>

\* proxy.run(command) on a record of the pool
ApiRun ==
    /\ pc = "api" /\ ~rnd.active /\ calls < MaxCalls
    /\ calls' = calls + 1
    /\ \E i \in Indices :
         /\ proxies' = [proxies EXCEPT ![i] = run(@)]
         /\ ret' = [NoRet EXCEPT !.op = "run", !.kind = "return", !.idx = i]
    /\ UNCHANGED <<env, mainVars, rnd, refreshes, ran>>

\* manager.refresh()
ApiRefresh ==
    /\ pc = "api" /\ ~rnd.active /\ calls < MaxCalls
    /\ calls' = calls + 1
    /\ \E resp \in FetchResponses :
         IF resp.exc
         THEN /\ ret' = [NoRet EXCEPT !.op = "refresh", !.kind = "raise", !.err = "fetch_exception"]
              /\ UNCHANGED proxies
         ELSE /\ proxies' = get_proxy_list(resp, proxies, env.use_https)
              /\ ret' = [NoRet EXCEPT !.op = "refresh", !.kind = "return",
                                      !.err = IF resp.ok THEN "none" ELSE "bad_status"]
    /\ UNCHANGED <<env, mainVars, rnd, refreshes, ran>>

\* manager.random(unused_only) up to its loop
ApiRandom ==
    /\ pc = "api" /\ ~rnd.active /\ calls < MaxCalls
    /\ calls' = calls + 1
    /\ \E unused_only \in BOOLEAN : RandomEnter(unused_only)
    /\ UNCHANGED <<proxies, env, mainVars, refreshes, ran>>

\* one pass of the loop of the running random()
ApiRandomIter ==
    /\ UNCHANGED calls
    /\ pc = "api"
    /\ RandomIter
    /\ UNCHANGED <<env, mainVars, refreshes, ran>>

\* [1, ..., len(ps)]
Positions(ps) == [i \in 1..Len(ps) |-> i]

\* [proxy for proxy in self._proxies if not proxy.used], as positions
unused_members(ps) == SelectSeq(Positions(ps), LAMBDA i : ~ps[i].used)

\* [proxy for proxy in self._proxies if proxy.verify()[0]], as positions in the
\* pool after every record was verified
valid_members(ps) == SelectSeq(Positions(ps), LAMBDA i : ps[i].valid.ok)

\* SSLProxyManager(proxies) as unused() and valid() call it: `if not proxies`
\* is true of an empty list, and then the new manager fetches the listing
\* (its own _proxies being empty, no record of the page is marked used).
Construct(op, members, issued) ==
    IF Len(members) # 0
    THEN ret' = [NoRet EXCEPT !.op = op, !.kind = "return", !.members = members,
                              !.size = Len(members), !.probes = issued]
    ELSE \E resp \in FetchResponses :
           IF resp.exc
           THEN ret' = [NoRet EXCEPT !.op = op, !.kind = "raise", !.err = "fetch_exception",
                                     !.probes = issued]
           ELSE ret' = [NoRet EXCEPT !.op = op, !.kind = "return", !.fetched = TRUE,
                                     !.size = Len(get_proxy_list(resp, <<>>, env.use_https)),
                                     !.probes = issued]

\* manager.unused()
ApiUnused ==
    /\ pc = "api" /\ ~rnd.active /\ calls < MaxCalls
    /\ calls' = calls + 1
    /\ Construct("unused", unused_members(proxies), 0)
    /\ UNCHANGED <<proxies, env, mainVars, rnd, refreshes, ran>>

\* manager.valid(): every record is verified in turn, then the manager of the
\* valid ones is built
ApiValid ==
    /\ pc = "api" /\ ~rnd.active /\ calls < MaxCalls
    /\ calls' = calls + 1
    /\ LET probed == {i \in Indices : ~proxies[i].valid.known}
       IN  \E works \in [probed -> BOOLEAN] :
             LET resp(i) == IF i \in probed /\ works[i] THEN WorkingResponse(proxies[i])
                            ELSE FailingResponse(proxies[i])
                 after   == [i \in Indices |-> verify(proxies[i], resp(i))]
             IN  /\ proxies' = after
                 /\ Construct("valid", valid_members(after), Cardinality(probed))
    /\ UNCHANGED <<env, mainVars, rnd, refreshes, ran>>

\* a manager built by SSLProxyManager(): the listing as fetched
InitAPI ==
    /\ env \in {e \in Envs : e.refresh_tries = 1 /\ e.max_total_tries = 1}
    /\ \E resp \in {r \in FetchResponses : ~r.exc} :
          proxies = get_proxy_list(resp, <<>>, env.use_https)
    /\ pc = "api"
    /\ tries = 0
    /\ total_tries = 0
    /\ exit_code = 1
    /\ cur = 0
    /\ rnd = NoCall
    /\ ret = NoRet
    /\ invocations = 0
    /\ refreshes = 0
    /\ ran = <<>>
    /\ calls = 0
    /\ hist = FreshPair(proxies)

NextAPI ==
    ApiVerify \/ ApiRun \/ ApiRefresh \/ ApiRandom \/ ApiRandomIter \/ ApiUnused \/ ApiValid

SpecAPI == InitAPI /\ [][NextAPI]_vars

\* -------------------------------------------------------------- properties
Terminated == pc \in {"done", "error"}

SomeUsed == \E i \in Indices : proxies[i].used

SomeUnused == \E i \in Indices : ~proxies[i].used

EveryUsed == \A i \in Indices : proxies[i].used

\* random(unused_only=True) has just returned a record
RandomReturned == ret.op = "random" /\ ret.kind = "return" /\ ret.unused_only

\* C1: main() terminates, on 'Done!' only after an exit code 0 and otherwise by
\* an exception; the command is never executed more than COMMAND_MAX_TRIES
\* times; and once total_tries has reached COMMAND_MAX_TRIES without an exit
\* code 0 and no fetch has raised, the exception is the max-tries one.
C1_MainTerminates ==
    /\ [](invocations <= env.max_total_tries)
    /\ [](pc = "done" => exit_code = 0)
    /\ []((pc = "error" /\ total_tries >= env.max_total_tries /\ exit_code # 0
             /\ ret.err # "fetch_exception") => ret.err = "max_tries")
    /\ <>Terminated

C1_Witness ==
    /\ pc = "error" /\ ret.err = "max_tries"
    /\ invocations = env.max_total_tries /\ invocations > 1 /\ refreshes > 0

\* C2: a record returned by random(unused_only=True) is not used.
C2_RandomReturnsUnused == RandomReturned => ~proxies[ret.idx].used

\* a used record was drawn and passed over before the one returned
C2_Witness == RandomReturned /\ SomeUsed /\ ret.draws > 1

\* C3: a record returned by random(unused_only=True) has the validation
\* result (True, _).
C3_RandomReturnsValid ==
    RandomReturned => (proxies[ret.idx].valid.known /\ proxies[ret.idx].valid.ok)

\* C4: refresh() gives a pool in which a record is used exactly if its address
\* is the address of a used record of the pool before.
C4_RefreshKeepsUsed ==
    [][(ret'.op = "refresh" /\ ret'.kind = "return") =>
          \A i \in 1..Len(proxies') :
             proxies'[i].used <=>
                \E j \in 1..Len(proxies) :
                   /\ proxies[j].used
                   /\ address(proxies[j], env.use_https) = address(proxies'[i], env.use_https)]_vars

C4_Witness == ret.op = "refresh" /\ ret.kind = "return" /\ SomeUsed /\ SomeUnused

\* C5: a fetch answered with a status that is not 2xx leaves the pool as it
\* was and ends main() at once by the fetch error.
C5_FailedFetchKeepsPool ==
    [][(ret'.op = "refresh" /\ ret'.err = "bad_status") =>
          (proxies' = proxies /\ pc' = "error")]_vars

\* Scenario B: REFRESH_TRIES=1, COMMAND_MAX_TRIES=4, every listing a pair of
\* unused records, every verification valid, every exit code 1.
ScenarioB ==
    /\ env.refresh_tries = 1 /\ env.max_total_tries = 4
    /\ hist /\ exit_code # 0

\* C6 as stated: scenario B ends by the max-tries exception after exactly 4
\* executions of the command and exactly 3 calls of refresh().
C6_ScenarioB_ThreeRefreshes ==
    (ScenarioB /\ Terminated) =>
        (pc = "error" /\ ret.err = "max_tries" /\ invocations = 4 /\ refreshes = 3)

\* C6 amended: scenario B ends by the max-tries exception after exactly 4
\* executions of the command and exactly 4 calls of refresh().
C6_ScenarioB_FourRefreshes ==
    (ScenarioB /\ Terminated) =>
        (pc = "error" /\ ret.err = "max_tries" /\ invocations = 4 /\ refreshes = 4)

C6_Witness == ScenarioB /\ Terminated /\ total_tries = 4

\* C7: verify() issues at most one request per record, and a call on a record
\* whose result is cached returns the cached pair, issues no request and
\* changes nothing, whatever the probe would answer.
C7_VerifyOnce ==
    /\ [](\A i \in Indices : proxies[i].probes <= 1)
    /\ [][(ret'.op = "verify" /\ proxies[ret'.idx].valid.known) =>
             /\ ret'.value = proxies[ret'.idx].valid
             /\ ret'.probes = 0
             /\ proxies' = proxies]_vars

\* verify() was called on a record that already held a negative result
C7_Witness ==
    /\ ret.op = "verify" /\ ret.probes = 0
    /\ ~ret.value.ok /\ proxies[ret.idx].probes = 1

\* C8: random(unused_only=True) on a pool whose records are all used raises
\* the all-used exception before any draw or probe: the loop is never entered
\* with every record used, and the exception is raised only then.
C8_AllUsedRaisesAtOnce ==
    /\ (rnd.active /\ rnd.unused_only) => ~EveryUsed
    /\ (ret.op = "random" /\ ret.err = "all_used") =>
          (EveryUsed /\ ret.kind = "raise" /\ ret.draws = 0 /\ ret.probes = 0)

C8_Witness == ret.op = "random" /\ ret.err = "all_used" /\ Len(proxies) > 0 /\ EveryUsed

\* C9: with every record's verification negative and a record unused,
\* random(unused_only=True) makes max_tries draws and raises the max-tries
\* exception.
C9_AllInvalidRaises ==
    (/\ ret.op = "random" /\ ret.unused_only
     /\ \A i \in Indices : proxies[i].valid.known /\ ~proxies[i].valid.ok
     /\ SomeUnused)
      => (ret.kind = "raise" /\ ret.err = "random_max_tries" /\ ret.draws = env.max_tries)

\* C10: between two replacements of the pool main() hands no record to the
\* command twice.
C10_OncePerGeneration ==
    \A a, b \in 1..Len(ran) : a # b => ran[a] # ran[b]

C10_Witness == Len(ran) = 2 /\ pc = "loop"

\* C11: random(unused_only=False) on a pool that is not empty returns the
\* record of its first draw and makes no request.
C11_AnyRecordFirstDraw ==
    (ret.op = "random" /\ ~ret.unused_only /\ Len(proxies) > 0) =>
        (ret.kind = "return" /\ ret.draws = 1 /\ ret.probes = 0)

UsedCount == Cardinality({i \in Indices : proxies[i].used})

\* C12: after an attempt that exits 0 main() only leaves the loop: no draw, no
\* refresh, no execution follows and nothing follows 'Done!'; each execution
\* marks exactly the record handed to the command, and no other step of the
\* loop but a refresh changes a used flag; a first attempt that succeeds ends
\* with 1 execution and 1 used record.
C12_StopsAtFirstSuccess ==
    /\ []((pc = "done" /\ invocations = 1) => (UsedCount = 1 /\ refreshes = 0))
    /\ [][/\ pc # "done"
          /\ exit_code = 0 =>
                (pc' = "done" /\ invocations' = invocations /\ refreshes' = refreshes
                   /\ proxies' = proxies /\ rnd' = rnd)
          /\ invocations' # invocations =>
                /\ invocations' = invocations + 1
                /\ ~proxies[cur].used
                /\ Len(proxies') = Len(proxies)
                /\ \A i \in Indices : proxies'[i].used <=> (proxies[i].used \/ i = cur)
          /\ (invocations' = invocations /\ refreshes' = refreshes) =>
                /\ Len(proxies') = Len(proxies)
                /\ \A i \in Indices : proxies'[i].used <=> proxies[i].used]_vars

C12_Witness == pc = "done" /\ invocations = 1 /\ UsedCount = 1 /\ Len(proxies) = 2

\* C13: no two records of the pool have the same address.
C13_AddressesDistinct ==
    \A i, j \in Indices :
       i # j => address(proxies[i], env.use_https) # address(proxies[j], env.use_https)

\* C14: the used flag of a record only goes from false to true: every call
\* but a refresh, which builds new records, keeps the records of the pool and
\* leaves a used record used.
C14_UsedMonotone ==
    [][~(ret'.op = "refresh" /\ ret'.kind = "return") =>
          /\ Len(proxies') = Len(proxies)
          /\ \A i \in Indices : proxies[i].used => proxies'[i].used]_vars

\* run() was called on a record that was used already
C14_Witness ==
    /\ ret.op = "run" /\ calls >= 2 /\ proxies[ret.idx].used
    /\ UsedCount = 1 /\ Len(proxies) = 2

\* C15: unused() returns a manager holding exactly the records of the pool
\* that are not used, none if all are used, and fetches no listing.
C15_UnusedView ==
    ret.op = "unused" =>
       /\ ret.kind = "return" /\ ~ret.fetched
       /\ ret.size = Cardinality({i \in Indices : ~proxies[i].used})
       /\ \A k \in 1..Len(ret.members) : ~proxies[ret.members[k]].used
       /\ \A i \in Indices : ~proxies[i].used => \E k \in 1..Len(ret.members) : ret.members[k] = i

\* C16: valid() verifies every record and returns a manager holding exactly
\* the records whose verification is (True, _), none if every verification
\* is negative.
C16_ValidView ==
    ret.op = "valid" =>
       /\ ret.kind = "return" /\ ~ret.fetched
       /\ \A i \in Indices : proxies[i].valid.known
       /\ ret.size = Cardinality({i \in Indices : proxies[i].valid.ok})
       /\ \A k \in 1..Len(ret.members) : proxies[ret.members[k]].valid.ok
       /\ \A i \in Indices : proxies[i].valid.ok => \E k \in 1..Len(ret.members) : ret.members[k] = i

\* C17: a call of verify() that makes a request returns (it raises nothing)
\* with the pair it caches; the pair is (True, '') exactly if no exception was
\* raised, the status is 2xx and the body without newlines is the host, and
\* (False, reason) otherwise; no exception of a probe ends random() or main().
C17_VerifyNeverRaises ==
    /\ (ret.op = "verify" /\ ret.probes = 1) =>
          /\ ret.kind = "return"
          /\ ret.value.known /\ proxies[ret.idx].valid = ret.value
          /\ ret.value.ok <=>
                (/\ ret.resp.exc = "none" /\ ret.resp.ok
                 /\ SelectSeq(ret.resp.text, LAMBDA c : c # "\n") = <<proxies[ret.idx].host>>)
          /\ ret.value.ok <=> (ret.value.reason = <<>>)
    /\ ret.kind = "raise" =>
          ret.err \in {"all_used", "random_max_tries", "IndexError", "fetch_exception"}

\* a probe that timed out
C17_Witness ==
    /\ ret.op = "verify" /\ ret.probes = 1 /\ ret.resp.exc = "Timeout"
    /\ ~ret.value.ok /\ proxies[ret.idx].valid.known

\* C18: total_tries is the number of executions of the command, never goes
\* down, and a refresh sets tries to 0 and leaves total_tries as it is.
C18_RefreshKeepsTotal ==
    /\ [](total_tries = invocations)
    /\ [][/\ total_tries' >= total_tries
          /\ (refreshes' # refreshes /\ pc' # "error") =>
                (tries' = 0 /\ total_tries' = total_tries)]_vars

C18_Witness == ret.op = "refresh" /\ pc = "check" /\ tries = 0 /\ total_tries >= 2

\* the pool holds fewer records than REFRESH_TRIES and no attempt has succeeded
SmallPool == Len(proxies) < env.refresh_tries /\ exit_code # 0

SelectionErrors == {"all_used", "random_max_tries"}

\* C19 as stated: while the pool holds k records, k < REFRESH_TRIES, and every
\* attempt fails, main() executes the command at most k times through it,
\* never calls refresh() and ends by an exception of random().
C19_SmallPoolSelectionError ==
    [][SmallPool =>
          /\ refreshes' = refreshes
          /\ Len(ran') <= Len(proxies')
          /\ Terminated' => (pc' = "error" /\ ret'.err \in SelectionErrors)]_vars

\* C19 amended: ... and ends by an exception of random(), by the max-tries
\* exception of main() when COMMAND_MAX_TRIES is reached first, or by the
\* KeyError of an unrecognised anonymity label.
C19_SmallPoolNoRefresh ==
    [][SmallPool =>
          /\ refreshes' = refreshes
          /\ Len(ran') <= Len(proxies')
          /\ Terminated' =>
                /\ pc' = "error"
                /\ \/ ret'.err \in SelectionErrors
                   \/ ret'.err = "max_tries" /\ total_tries' >= env.max_total_tries
                   \/ ret'.err = "KeyError" /\ ~RecognisedLabels(proxies')]_vars

\* the one record of the pool was used up and random() raised
C19_Witness ==
    /\ SmallPool /\ Terminated /\ Len(proxies) = 1 /\ Len(ran) = 1
    /\ ret.err = "all_used"

\* C20: when the record drawn has an anonymity label other than 'anonymous'
\* and 'elite proxy', main() ends by an exception where the record is
\* formatted: the command is not executed, the record is not marked used and
\* tries and total_tries stay as they are.
C20_UnknownLabelAborts ==
    [][(pc = "run" /\ proxies[cur].anonymity \notin {"anonymous", "elite proxy"}) =>
          /\ pc' = "error" /\ ret'.kind = "raise" /\ ret'.err = "KeyError"
          /\ invocations' = invocations
          /\ proxies' = proxies
          /\ tries' = tries /\ total_tries' = total_tries]_vars

\* the abort came after an earlier attempt through another record
C20_Witness ==
    /\ pc = "error" /\ ret.err = "KeyError" /\ ~proxies[ret.idx].used
    /\ invocations = 1 /\ total_tries = 1

====
